---- MODULE Spec2Model ----
(***************************************************************************)
(* Model of scripts/rnnlm/make_word_features.py: the three loaders         *)
(* (read_vocab, read_unigram_probs, read_features), get_feature_list and   *)
(* the emit loop.                                                          *)
(*                                                                         *)
(* A Python string is a sequence of one-character strings; a line of an    *)
(* input file is the list line.split() returns, a sequence of strings.     *)
(* A number held in a feature vector is a record [n, f]: the integer n     *)
(* plus the float term f (<<>> for a pure integer, <<tok>> for float(tok), *)
(* <<p, e, s>> for (log(p) + e) * s / e).                                  *)
(***************************************************************************)
EXTENDS Integers, Sequences, FiniteSets, TLC

VARIABLES pc, nread, vocab, unigram_probs, feats, loaded, call, out, err

vars == <<pc, nread, vocab, unigram_probs, feats, loaded, call, out, err>>

----------------------------------------------------------------------------
(* Bounds of the model *)

MaxVocabLines == 2
MaxUnigramLines == 2
MaxFeatLines == 3
MaxScanFeatLines == 3

----------------------------------------------------------------------------
(* Strings, int() and float() *)

Digits == <<"0", "1", "2", "3", "4", "5", "6", "7", "8", "9">>

DigitSet == {Digits[i] : i \in 1..10}

DigitVal(c) == (CHOOSE i \in 1..10 : Digits[i] = c) - 1

IsIntToken(s) == Len(s) > 0 /\ \A i \in 1..Len(s) : s[i] \in DigitSet

RECURSIVE ParseInt(_)
ParseInt(s) ==
    IF Len(s) = 0 THEN 0
    ELSE 10 * ParseInt(SubSeq(s, 1, Len(s) - 1)) + DigitVal(s[Len(s)])

IsFloatToken(s) ==
    /\ \A i \in 1..Len(s) : s[i] \in DigitSet \cup {"."}
    /\ \E i \in 1..Len(s) : s[i] \in DigitSet
    /\ Cardinality({i \in 1..Len(s) : s[i] = "."}) <= 1

IsZeroFloat(s) == \A i \in 1..Len(s) : s[i] \in {"0", "."}

(* word[start:end] for 0 <= start; Python clips end to len(word) *)
Slice(word, start, end) ==
    SubSeq(word, start + 1, IF end > Len(word) THEN Len(word) ELSE end)

(* d[k] = v on a Python dict *)
DictSet(d, k, v) == [x \in DOMAIN d \cup {k} |-> IF x = k THEN v ELSE d[x]]

EmptyDict == <<>>

None == <<>>

NoErr == ""

IntVal(k) == [n |-> k, f |-> <<>>]

FloatVal(tok) == [n |-> 0, f |-> <<tok>>]

----------------------------------------------------------------------------
(* Tokens of the input files *)

T_constant == <<"c", "o", "n", "s", "t", "a", "n", "t">>
T_special == <<"s", "p", "e", "c", "i", "a", "l">>
T_unigram == <<"u", "n", "i", "g", "r", "a", "m">>
T_length == <<"l", "e", "n", "g", "t", "h">>
T_word == <<"w", "o", "r", "d">>
T_match == <<"m", "a", "t", "c", "h">>
T_initial == <<"i", "n", "i", "t", "i", "a", "l">>
T_final == <<"f", "i", "n", "a", "l">>
T_bogus == <<"b", "o", "g", "u", "s">>

Eps == <<"<", "e", "p", "s", ">">>
Cat == <<"c", "a", "t">>

----------------------------------------------------------------------------
(* read_vocab *)

(* one iteration of the loop over the lines of the vocabulary file *)
ReadVocabLine(v, fields) ==
    IF Len(fields) # 2 THEN [err |-> "AssertionError: len(fields) == 2", vocab |-> v]
    ELSE IF fields[1] \in DOMAIN v THEN [err |-> "exit: duplicated word", vocab |-> v]
    ELSE IF ~IsIntToken(fields[2]) THEN [err |-> "ValueError: int()", vocab |-> v]
    ELSE [err |-> NoErr, vocab |-> DictSet(v, fields[1], ParseInt(fields[2]))]

RECURSIVE SortedSeq(_)
(* sorted(...) of a bag of integers given as a function key -> integer *)
SortedSeq(d) ==
    IF DOMAIN d = {} THEN <<>>
    ELSE LET k == CHOOSE x \in DOMAIN d : \A y \in DOMAIN d : d[x] <= d[y]
         IN <<d[k]>> \o SortedSeq([x \in DOMAIN d \ {k} |-> d[x]])

(* the sorted ids as the dedup-ing check sorted(set(vocab.values())) sees them *)
IdsContiguousOverSet(v) ==
    LET ids == {v[w] : w \in DOMAIN v}
    IN \A i \in ids : i < Cardinality(ids)

(* for idx, id in enumerate(sorted(vocab.values())): assert idx == id *)
IdsContiguous(v) ==
    LET sorted_ids == SortedSeq(v)
    IN \A i \in 1..Len(sorted_ids) : i - 1 = sorted_ids[i]

----------------------------------------------------------------------------
(* read_unigram_probs *)

RECURSIVE Nones(_)
Nones(k) == IF k <= 0 THEN <<>> ELSE <<None>> \o Nones(k - 1)

ReadUnigramLine(u, fields) ==
    IF Len(fields) # 2 THEN [err |-> "AssertionError: len(fields) == 2", probs |-> u]
    ELSE IF ~IsIntToken(fields[1]) THEN [err |-> "ValueError: int()", probs |-> u]
    ELSE IF ~IsFloatToken(fields[2]) THEN [err |-> "ValueError: float()", probs |-> u]
    ELSE LET idx == ParseInt(fields[1])
             ext == IF idx >= Len(u) THEN u \o Nones(idx - Len(u) + 1) ELSE u
         IN [err |-> NoErr, probs |-> [ext EXCEPT ![idx + 1] = fields[2]]]

(* for prob in unigram_probs: assert prob is not None *)
NoMissingProb(u) == \A i \in 1..Len(u) : u[i] # None

----------------------------------------------------------------------------
(* read_features *)

SentinelMinOrder == 10000

SentinelMaxOrder == 0 - 1

NgramTypes == {T_word, T_match, T_initial, T_final}

(* the dictionary read_features starts from; 'unigram' and 'length' are keys *)
(* that are absent until a record sets them: <<>> stands for the absent key  *)
InitFeats ==
    [constant |-> None, special |-> EmptyDict, unigram |-> <<>>, length |-> <<>>,
     word |-> EmptyDict, match |-> EmptyDict, initial |-> EmptyDict,
     final |-> EmptyDict,
     min_ngram_order |-> SentinelMinOrder, max_ngram_order |-> SentinelMaxOrder]

(* a plausible slip: the boundary symbol of initial/final n-grams is forgotten *)
NgramOrderNoBoundary(feat_type, ngram) == Len(ngram)

(* order of a match / initial / final record *)
NgramOrder(feat_type, ngram) ==
    IF feat_type \in {T_initial, T_final} THEN Len(ngram) + 1 ELSE Len(ngram)

(* feats[feat_type][ngram] = feat_id and the update of the order bounds *)
AddNgram(f, feat_type, ngram, feat_id) ==
    LET g == IF feat_type = T_word THEN [f EXCEPT !.word = DictSet(@, ngram, feat_id)]
             ELSE IF feat_type = T_match THEN [f EXCEPT !.match = DictSet(@, ngram, feat_id)]
             ELSE IF feat_type = T_initial THEN [f EXCEPT !.initial = DictSet(@, ngram, feat_id)]
             ELSE [f EXCEPT !.final = DictSet(@, ngram, feat_id)]
         order == NgramOrder(feat_type, ngram)
    IN IF feat_type = T_word THEN g
       ELSE [g EXCEPT
               !.max_ngram_order = IF order > @ THEN order ELSE @,
               !.min_ngram_order = IF order < @ THEN order ELSE @]

(* one iteration of the loop over the lines of the features file *)
ReadFeatureLine(f, fields) ==
    IF Len(fields) \notin {2, 3, 4} THEN [err |-> "AssertionError: len(fields) in [2, 3, 4]", feats |-> f]
    ELSE IF ~IsIntToken(fields[1]) THEN [err |-> "ValueError: int()", feats |-> f]
    ELSE LET feat_id == ParseInt(fields[1])
             feat_type == fields[2]
         IN IF feat_type = T_constant THEN
                IF Len(fields) < 3 THEN [err |-> "IndexError: fields", feats |-> f]
                ELSE IF ~IsFloatToken(fields[3]) THEN [err |-> "ValueError: float()", feats |-> f]
                ELSE [err |-> NoErr,
                      feats |-> [f EXCEPT !.constant = <<[id |-> feat_id, value |-> FloatVal(fields[3])]>>]]
            ELSE IF feat_type = T_special THEN
                IF Len(fields) < 3 THEN [err |-> "IndexError: fields", feats |-> f]
                ELSE [err |-> NoErr, feats |-> [f EXCEPT !.special = DictSet(@, fields[3], feat_id)]]
            ELSE IF feat_type = T_unigram THEN
                IF Len(fields) < 4 THEN [err |-> "IndexError: fields", feats |-> f]
                ELSE IF ~IsFloatToken(fields[3]) \/ ~IsFloatToken(fields[4])
                     THEN [err |-> "ValueError: float()", feats |-> f]
                ELSE [err |-> NoErr,
                      feats |-> [f EXCEPT !.unigram =
                                    <<[id |-> feat_id, entropy |-> fields[3], scale |-> fields[4]]>>]]
            ELSE IF feat_type = T_length THEN
                [err |-> NoErr, feats |-> [f EXCEPT !.length = <<feat_id>>]]
            ELSE IF feat_type \in NgramTypes THEN
                IF Len(fields) < 3 THEN [err |-> "IndexError: fields", feats |-> f]
                ELSE [err |-> NoErr, feats |-> AddNgram(f, feat_type, fields[3], feat_id)]
            ELSE [err |-> "exit: error feature type", feats |-> f]

----------------------------------------------------------------------------
(* get_feature_list *)

(* a plausible slip: ans[feat_id] = 1 instead of ans[feat_id] += 1 *)
AccumulateOverwrite(ans, feat_id) == DictSet(ans, feat_id, IntVal(1))

(* ans[feat_id] += 1 on a defaultdict(int) *)
Accumulate(ans, feat_id) ==
    IF feat_id \in DOMAIN ans THEN [ans EXCEPT ![feat_id].n = @ + 1]
    ELSE DictSet(ans, feat_id, IntVal(1))

(* a plausible slip: the whole-word span is not skipped and falls through *)
SpanClassNoWordSkip(len, start, end) ==
    IF start < 0 - 1 THEN "skip"
    ELSE IF start < 0 THEN "initial"
    ELSE IF end > len THEN "final"
    ELSE "match"

(* a plausible slip: a span that touches the end of the word counts as final *)
SpanClassEndIsFinal(len, start, end) ==
    IF start < 0 - 1 THEN "skip"
    ELSE IF start < 0 /\ end > len THEN "skip"
    ELSE IF start < 0 THEN "initial"
    ELSE IF end >= len THEN "final"
    ELSE "match"

(* the if / elif chain that classifies the span [start, end) *)
SpanClass(len, start, end) ==
    IF start < 0 - 1 THEN "skip"
    ELSE IF start < 0 /\ end > len THEN "skip"
    ELSE IF start < 0 THEN "initial"
    ELSE IF end > len THEN "final"
    ELSE "match"

(* the body of the inner loop for one (pos, order) *)
ScanSpan(word, pos, order, f, ans) ==
    LET start == pos - order + 1
        end == pos + 1
        cls == SpanClass(Len(word), start, end)
        ngram_feats == IF cls = "initial" THEN f.initial
                       ELSE IF cls = "final" THEN f.final
                       ELSE f.match
        s == IF cls = "initial" THEN 0 ELSE start
        e == IF cls = "final" THEN Len(word) ELSE end
    IN IF cls = "skip" \/ s >= e THEN ans
       ELSE LET feat == Slice(word, s, e)
            IN IF feat \in DOMAIN ngram_feats
               THEN Accumulate(ans, ngram_feats[feat])
               ELSE ans

RECURSIVE ScanFrom(_, _, _, _, _)
(* the two nested loops, from (pos, order) on *)
ScanFrom(word, f, ans, pos, order) ==
    IF pos > Len(word) THEN ans
    ELSE IF order > f.max_ngram_order THEN ScanFrom(word, f, ans, pos + 1, f.min_ngram_order)
    ELSE ScanFrom(word, f, ScanSpan(word, pos, order, f, ans), pos, order + 1)

NgramScan(word, f, ans) == ScanFrom(word, f, ans, 0, f.min_ngram_order)

(* from the length feature to the end of the function *)
LengthWordNgrams(word, f, ans) ==
    LET a1 == IF f.length # <<>> THEN DictSet(ans, f.length[1], IntVal(Len(word))) ELSE ans
        a2 == IF word \in DOMAIN f.word THEN DictSet(a1, f.word[word], IntVal(1)) ELSE a1
    IN NgramScan(word, f, a2)

(* from the unigram feature on; the lookup, the log and the division can raise *)
OrdinaryWord(word, idx, f, u, ans) ==
    IF f.unigram = <<>> THEN [raised |-> NoErr, ans |-> LengthWordNgrams(word, f, ans)]
    ELSE LET ug == f.unigram[1]
         IN IF idx >= Len(u) THEN [raised |-> "IndexError: unigram_probs[idx]", ans |-> ans]
            ELSE IF IsZeroFloat(u[idx + 1]) THEN [raised |-> "ValueError: math.log", ans |-> ans]
            ELSE IF IsZeroFloat(ug.entropy) THEN [raised |-> "ZeroDivisionError", ans |-> ans]
            ELSE [raised |-> NoErr,
                  ans |-> LengthWordNgrams(word, f,
                            DictSet(ans, ug.id, [n |-> 0, f |-> <<u[idx + 1], ug.entropy, ug.scale>>]))]

(* a plausible slip: the special feature is set but the function does not return *)
SpecialOrOrdinaryNoReturn(word, idx, f, u, ans) ==
    IF word \in DOMAIN f.special
    THEN OrdinaryWord(word, idx, f, u, DictSet(ans, f.special[word], IntVal(1)))
    ELSE OrdinaryWord(word, idx, f, u, ans)

(* the special-word test and its early return *)
SpecialOrOrdinary(word, idx, f, u, ans) ==
    IF word \in DOMAIN f.special
    THEN [raised |-> NoErr, ans |-> DictSet(ans, f.special[word], IntVal(1))]
    ELSE OrdinaryWord(word, idx, f, u, ans)

(* everything after the idx == 0 test *)
NonPadWord(word, idx, f, u) ==
    LET ans == IF f.constant # None
               THEN DictSet(EmptyDict, f.constant[1].id, f.constant[1].value)
               ELSE EmptyDict
    IN SpecialOrOrdinary(word, idx, f, u, ans)

(* a plausible slip: the idx == 0 test is missing *)
get_feature_list_no_pad(word, idx, f, u) == NonPadWord(word, idx, f, u)

get_feature_list(word, idx, f, u) ==
    IF idx = 0 THEN [raised |-> NoErr, ans |-> EmptyDict]
    ELSE NonPadWord(word, idx, f, u)

RECURSIVE ItemsDescending(_)
(* a plausible slip: the items are not in ascending order of feature id *)
ItemsDescending(ans) ==
    IF DOMAIN ans = {} THEN <<>>
    ELSE LET k == CHOOSE x \in DOMAIN ans : \A y \in DOMAIN ans : x >= y
         IN <<<<k, ans[k]>>>> \o ItemsDescending([x \in DOMAIN ans \ {k} |-> ans[x]])

RECURSIVE SortedItems(_)
(* sorted(feature_list.items()) *)
SortedItems(ans) ==
    IF DOMAIN ans = {} THEN <<>>
    ELSE LET k == CHOOSE x \in DOMAIN ans : \A y \in DOMAIN ans : x <= y
         IN <<<<k, ans[k]>>>> \o SortedItems([x \in DOMAIN ans \ {k} |-> ans[x]])

----------------------------------------------------------------------------
(* The module-level statements: the three loads, then the emit loop *)

Loaders == {"read_vocab", "read_unigram_probs", "read_features"}

AllTables == {"vocab", "unigram_probs", "feats"}

(* a plausible slip: the emit loop placed before the load of the features *)
PhaseAfterEmitEarly(p) ==
    IF p = "read_vocab" THEN "read_unigram_probs"
    ELSE IF p = "read_unigram_probs" THEN "emit"
    ELSE IF p = "emit" THEN "read_features"
    ELSE "done"

(* the order of the statements of the script *)
PhaseAfter(p) ==
    IF p = "read_vocab" THEN "read_unigram_probs"
    ELSE IF p = "read_unigram_probs" THEN "read_features"
    ELSE IF p = "read_features" THEN "emit"
    ELSE "done"

RECURSIVE SortedVocab(_)
(* sorted(vocab.items(), key=lambda x: x[1]) *)
SortedVocab(v) ==
    IF DOMAIN v = {} THEN <<>>
    ELSE LET w == CHOOSE x \in DOMAIN v : \A y \in DOMAIN v : v[x] <= v[y]
         IN <<<<w, v[w]>>>> \o SortedVocab([x \in DOMAIN v \ {w} |-> v[x]])

(* Input alphabets of a whole run *)

A == <<"a">>
B == <<"b">>
AA == <<"a", "a">>
AB == <<"a", "b">>
AAA == <<"a", "a", "a">>
ABA == <<"a", "b", "a">>
BA == <<"b", "a">>
AT == <<"a", "t">>
C == <<"c">>
T == <<"t">>

N0 == <<"0">>
N1 == <<"1">>
N2 == <<"2">>
N3 == <<"3">>
N4 == <<"4">>
N5 == <<"5">>
N6 == <<"6">>
N7 == <<"7">>
N8 == <<"8">>
N9 == <<"9">>
F_half == <<"0", ".", "5">>
F_001 == <<"0", ".", "0", "1">>
F_zero == <<"0", ".", "0">>
F_one == <<"1", ".", "0">>
F_four == <<"4", ".", "0">>

RunVocabLines ==
    {<<Eps, N0>>, <<Cat, N1>>, <<A, N0>>, <<B, N0>>, <<B, N2>>, <<A>>}

RunUnigramLines ==
    {<<N0, F_half>>, <<N1, F_001>>, <<N1, F_zero>>, <<N1>>}

RunFeatLines ==
    {<<N5, T_length>>, <<N9, T_match, AT>>, <<N7, T_initial, C>>, <<N8, T_final, T>>,
     <<N3, T_unigram, F_four, F_one>>, <<N3, T_unigram, F_zero, F_one>>,
     <<N1, T_constant, F_one>>, <<N2, T_special, Cat>>, <<N4, T_word, Cat>>,
     <<N6, T_bogus>>, <<N6>>, <<C, T_length>>}

(* Input alphabets of the runs that start at the load of the features *)

ScanWords == {A, AB, AA, ABA, AAA}

ScanVocabs ==
    {[w \in {w0, w1} |-> IF w = w0 THEN 0 ELSE 1] :
        <<w0, w1>> \in {p \in {A, AA} \X ScanWords : p[1] # p[2]}}

ScanNgrams == {A, B, AA, AB, BA}

ScanFeatLines ==
    {<<N1, T_constant, F_one>>, <<N2, T_constant, F_one>>, <<N5, T_length>>,
     <<N3, T_unigram, F_four, F_one>>}
    \cup {<<N2, T_special, w>> : w \in {A, AB}}
    \cup {<<N4, T_word, w>> : w \in {A, AB}}
    \cup {<<i, T_match, g>> : i \in {N9, N6}, g \in ScanNgrams}
    \cup {<<N7, T_initial, g>> : g \in ScanNgrams}
    \cup {<<N8, T_final, g>> : g \in ScanNgrams}

----------------------------------------------------------------------------
(* Actions *)

VocabLineOf(lines, max) ==
    /\ pc = "read_vocab" /\ err = NoErr /\ nread < max
    /\ \E fields \in lines :
          LET r == ReadVocabLine(vocab, fields)
          IN vocab' = r.vocab /\ err' = r.err
    /\ nread' = nread + 1
    /\ UNCHANGED <<pc, unigram_probs, feats, loaded, call, out>>

VocabLine == VocabLineOf(RunVocabLines, MaxVocabLines)

(* end of the vocabulary file: the id check, then vocab is bound and     *)
(* read_unigram_probs starts with an empty list                          *)
VocabEOF ==
    /\ pc = "read_vocab" /\ err = NoErr
    /\ IF IdsContiguous(vocab)
       THEN /\ pc' = PhaseAfter(pc)
            /\ loaded' = loaded \cup {"vocab"}
            /\ nread' = 0
            /\ unigram_probs' = <<>>
            /\ UNCHANGED err
       ELSE /\ err' = "AssertionError: idx == id"
            /\ UNCHANGED <<pc, loaded, nread, unigram_probs>>
    /\ UNCHANGED <<vocab, feats, call, out>>

UnigramLineOf(lines, max) ==
    /\ pc = "read_unigram_probs" /\ err = NoErr /\ nread < max
    /\ \E fields \in lines :
          LET r == ReadUnigramLine(unigram_probs, fields)
          IN unigram_probs' = r.probs /\ err' = r.err
    /\ nread' = nread + 1
    /\ UNCHANGED <<pc, vocab, feats, loaded, call, out>>

UnigramLine == UnigramLineOf(RunUnigramLines, MaxUnigramLines)

UnigramEOF ==
    /\ pc = "read_unigram_probs" /\ err = NoErr
    /\ IF NoMissingProb(unigram_probs)
       THEN /\ pc' = PhaseAfter(pc)
            /\ loaded' = loaded \cup {"unigram_probs"}
            /\ nread' = 0
            /\ feats' = InitFeats
            /\ UNCHANGED err
       ELSE /\ err' = "AssertionError: prob is not None"
            /\ UNCHANGED <<pc, loaded, nread, feats>>
    /\ UNCHANGED <<vocab, unigram_probs, call, out>>

FeatureLineOf(lines, max) ==
    /\ pc = "read_features" /\ err = NoErr /\ nread < max
    /\ \E fields \in lines :
          LET r == ReadFeatureLine(feats, fields)
          IN feats' = r.feats /\ err' = r.err
    /\ nread' = nread + 1
    /\ UNCHANGED <<pc, vocab, unigram_probs, loaded, call, out>>

FeatureLine == FeatureLineOf(RunFeatLines, MaxFeatLines)

ScanFeatureLine == FeatureLineOf(ScanFeatLines, MaxScanFeatLines)

FeaturesEOF ==
    /\ pc = "read_features" /\ err = NoErr
    /\ pc' = PhaseAfter(pc)
    /\ loaded' = loaded \cup {"feats"}
    /\ nread' = 0
    /\ UNCHANGED <<vocab, unigram_probs, feats, call, out, err>>

(* one iteration of the emit loop: get_feature_list, then print *)
EmitWord ==
    /\ pc = "emit" /\ err = NoErr
    /\ Len(out) < Len(SortedVocab(vocab))
    /\ LET item == SortedVocab(vocab)[Len(out) + 1]
           r == get_feature_list(item[1], item[2], feats, unigram_probs)
       IN /\ call' = <<[word |-> item[1], idx |-> item[2],
                        raised |-> r.raised, ans |-> r.ans]>>
          /\ err' = r.raised
          /\ out' = IF r.raised = NoErr
                    THEN Append(out, <<item[2], SortedItems(r.ans)>>)
                    ELSE out
    /\ UNCHANGED <<pc, nread, vocab, unigram_probs, feats, loaded>>

(* the loop is over; the count of words goes to stderr *)
EmitDone ==
    /\ pc = "emit" /\ err = NoErr
    /\ Len(out) = Len(SortedVocab(vocab))
    /\ pc' = PhaseAfter(pc)
    /\ UNCHANGED <<nread, vocab, unigram_probs, feats, loaded, call, out, err>>

Init ==
    /\ pc = "read_vocab"
    /\ nread = 0
    /\ vocab = EmptyDict
    /\ unigram_probs = <<>>
    /\ feats = InitFeats
    /\ loaded = {}
    /\ call = <<>>
    /\ out = <<>>
    /\ err = NoErr

Next ==
    \/ VocabLine
    \/ VocabEOF
    \/ UnigramLine
    \/ UnigramEOF
    \/ FeatureLine
    \/ FeaturesEOF
    \/ EmitWord
    \/ EmitDone

Spec == Init /\ [][Next]_vars

(* Runs that start at line 130, the vocabulary and the unigram table loaded *)
InitFeat ==
    /\ pc = "read_features"
    /\ nread = 0
    /\ vocab \in ScanVocabs
    /\ unigram_probs = <<F_half, F_001>>
    /\ feats = InitFeats
    /\ loaded = {"vocab", "unigram_probs"}
    /\ call = <<>>
    /\ out = <<>>
    /\ err = NoErr

NextFeat ==
    \/ ScanFeatureLine
    \/ FeaturesEOF
    \/ EmitWord
    \/ EmitDone

SpecFeat == InitFeat /\ [][NextFeat]_vars

----------------------------------------------------------------------------
(* Vocabulary of the properties *)

TheCall == call[1]

(* every use of a feature id by the dictionary: <<kind, key, id>> *)
IdEntries(f) ==
    {<<"constant", <<>>, f.constant[i].id>> : i \in DOMAIN f.constant}
    \cup {<<"unigram", <<>>, f.unigram[i].id>> : i \in DOMAIN f.unigram}
    \cup {<<"length", <<>>, f.length[i]>> : i \in DOMAIN f.length}
    \cup {<<"special", w, f.special[w]>> : w \in DOMAIN f.special}
    \cup {<<"word", w, f.word[w]>> : w \in DOMAIN f.word}
    \cup {<<"match", g, f.match[g]>> : g \in DOMAIN f.match}
    \cup {<<"initial", g, f.initial[g]>> : g \in DOMAIN f.initial}
    \cup {<<"final", g, f.final[g]>> : g \in DOMAIN f.final}

PairwiseDistinctIds(f) ==
    \A e1, e2 \in IdEntries(f) : e1[3] = e2[3] => e1 = e2

UsedOnce(f, id) == Cardinality({e \in IdEntries(f) : e[3] = id}) = 1

(* the positions at which g occurs in w, overlapping ones included *)
Positions(g, w) ==
    {i \in 1..(Len(w) - Len(g) + 1) : SubSeq(w, i, i + Len(g) - 1) = g}

StartsWith(w, g) == Len(g) <= Len(w) /\ SubSeq(w, 1, Len(g)) = g

EndsWith(w, g) == Len(g) <= Len(w) /\ SubSeq(w, Len(w) - Len(g) + 1, Len(w)) = g

(* the feature id holds exactly the count k: absent for 0 *)
Counts(ans, id, k) ==
    IF k = 0 THEN id \notin DOMAIN ans
    ELSE id \in DOMAIN ans /\ ans[id] = [n |-> k, f |-> <<>>]

NgramOrders(f) ==
    {Len(g) : g \in DOMAIN f.match}
    \cup {Len(g) + 1 : g \in DOMAIN f.initial \cup DOMAIN f.final}

OrdinaryCall ==
    /\ call # <<>>
    /\ TheCall.idx # 0
    /\ TheCall.word \notin DOMAIN feats.special
    /\ TheCall.raised = NoErr

SpecialCall ==
    /\ call # <<>>
    /\ TheCall.idx # 0
    /\ TheCall.word \in DOMAIN feats.special

CatVocab == [w \in {Eps, Cat} |-> IF w = Eps THEN 0 ELSE 1]

CatDict ==
    [constant |-> <<>>, special |-> <<>>, unigram |-> <<>>, length |-> <<5>>,
     word |-> <<>>, match |-> [g \in {AT} |-> 9], initial |-> <<>>, final |-> <<>>,
     min_ngram_order |-> 2, max_ngram_order |-> 2]

CatLines ==
    << <<0, <<>>>>,
       <<1, << <<5, [n |-> 3, f |-> <<>>]>>, <<9, [n |-> 1, f |-> <<>>]>> >> >> >>

SameIdVocab == [w \in {A, B} |-> 0]

GapVocab == [w \in {A, B} |-> IF w = A THEN 0 ELSE 2]

----------------------------------------------------------------------------
(* C1: get_feature_list raises no error on tables that passed their loaders: *)
(* a run never fails in the emit loop.                                      *)
C1_NoExtractionError == ~(pc = "emit" /\ err # NoErr)

(* C2, as stated: for a special word with id # 0 the vector holds the special *)
(* feature with value 1 and nothing else.                                    *)
C2_SpecialFeatureAlone ==
    SpecialCall =>
        /\ TheCall.raised = NoErr
        /\ DOMAIN TheCall.ans = {feats.special[TheCall.word]}
        /\ TheCall.ans[feats.special[TheCall.word]] = IntVal(1)

(* C2, amended: for a special word with id # 0 the vector holds the special  *)
(* feature with value 1 and, when a constant is configured, the constant     *)
(* feature with its value (replaced by the 1 when both share a feature id),  *)
(* and no unigram, length, word or n-gram feature.                           *)
C2_SpecialAndConstantOnly ==
    SpecialCall =>
        LET sid == feats.special[TheCall.word]
            cids == {feats.constant[i].id : i \in DOMAIN feats.constant}
        IN /\ TheCall.raised = NoErr
           /\ DOMAIN TheCall.ans = {sid} \cup cids
           /\ TheCall.ans[sid] = IntVal(1)
           /\ \A c \in cids \ {sid} : TheCall.ans[c] = feats.constant[1].value

C2_Witness ==
    /\ SpecialCall
    /\ feats.constant # None
    /\ feats.constant[1].id # feats.special[TheCall.word]
    /\ feats.length # <<>> \/ TheCall.word \in DOMAIN feats.match

(* C3, as stated: the run on the unigram input holding only 1 -> 0.01 does   *)
(* not abort: after that one line, read_unigram_probs has no error.          *)
C3_RunOnPartialTableCompletes ==
    (pc = "read_unigram_probs" /\ vocab = CatVocab /\ nread = 1
        /\ unigram_probs = <<None, F_001>>) => err = NoErr

(* C3, amended: with the unigram input holding 0 -> 0.5 and 1 -> 0.01 the run *)
(* raises no error and emits exactly the lines 0<TAB> and 1<TAB>5 3 9 1 in   *)
(* that order; with the input holding only 1 -> 0.01 nothing is emitted.     *)
C3_RunOnFullTable ==
    /\ (vocab = CatVocab /\ unigram_probs = <<F_half, F_001>> /\ feats = CatDict
           /\ pc \in {"emit", "done"}) =>
          /\ err = NoErr
          /\ Len(out) <= 2
          /\ out = SubSeq(CatLines, 1, Len(out))
          /\ pc = "done" => out = CatLines
    /\ (vocab = CatVocab /\ unigram_probs = <<None, F_001>>) =>
          pc = "read_unigram_probs" /\ out = <<>>

C3_Witness ==
    /\ pc = "done" /\ vocab = CatVocab /\ unigram_probs = <<F_half, F_001>>
    /\ feats = CatDict /\ out = CatLines

(* C4, as stated: the vocabulary a -> 0, b -> 0 is rejected with the         *)
(* duplicate-word error.                                                     *)
C4_SameIdIsDuplicateWord ==
    (pc = "read_vocab" /\ vocab = SameIdVocab /\ nread = 2 /\ err # NoErr) =>
        err = "exit: duplicated word"

(* C4, amended: both vocabularies are rejected by the id check (assert       *)
(* idx == id, the non-contiguous-id error) and never get past read_vocab;    *)
(* the duplicate-word error is raised only by a line whose word is already   *)
(* in the vocabulary.                                                        *)
C4_RejectedByIdCheck ==
    /\ vocab \in {SameIdVocab, GapVocab} => pc = "read_vocab"
    /\ (pc = "read_vocab" /\ vocab \in {SameIdVocab, GapVocab} /\ nread = 2
           /\ err # NoErr) => err = "AssertionError: idx == id"
    /\ err = "exit: duplicated word" =>
          pc = "read_vocab" /\ nread > Cardinality(DOMAIN vocab)

C4_Witness ==
    /\ pc = "read_vocab" /\ vocab = SameIdVocab /\ nread = 2
    /\ err = "AssertionError: idx == id"

(* C5: nothing is extracted or written before the three tables are loaded,   *)
(* and a run that ended in a loader has written no line.                     *)
C5_LoadBeforeEmit ==
    /\ (out # <<>> \/ call # <<>>) => loaded = AllTables
    /\ pc = "emit" => loaded = AllTables
    /\ (err # NoErr /\ pc \in Loaders) => (out = <<>> /\ call = <<>>)

C5_Witness ==
    /\ pc = "read_features" /\ err = "exit: error feature type"
    /\ loaded = {"vocab", "unigram_probs"} /\ DOMAIN vocab # {} /\ out = <<>>

(* C6, as stated: when the whole word is a key of word and the only n-gram   *)
(* registered (feature ids pairwise distinct), the scan increments no        *)
(* match / initial / final feature: the span that covers the whole word      *)
(* fires the word feature alone.                                             *)
C6_WholeWordFiresWordOnly ==
    (/\ OrdinaryCall
     /\ PairwiseDistinctIds(feats)
     /\ TheCall.word \in DOMAIN feats.word
     /\ DOMAIN feats.match \cup DOMAIN feats.initial \cup DOMAIN feats.final
           = {TheCall.word}) =>
        \A id \in DOMAIN TheCall.ans :
            id \notin {e[3] : e \in {x \in IdEntries(feats) :
                                        x[1] \in {"match", "initial", "final"}}}

(* C6, amended: only the span padded by the boundary on both sides is        *)
(* skipped. When the whole word is a key of word and is registered as a      *)
(* match, initial or final n-gram (feature ids pairwise distinct), the word  *)
(* feature is 1 and each of those n-gram features counts the whole word      *)
(* exactly once, never twice.                                                *)
C6_WholeWordCountedOnce ==
    (/\ OrdinaryCall
     /\ PairwiseDistinctIds(feats)
     /\ TheCall.word \in DOMAIN feats.word) =>
        /\ Counts(TheCall.ans, feats.word[TheCall.word], 1)
        /\ TheCall.word \in DOMAIN feats.match =>
              Counts(TheCall.ans, feats.match[TheCall.word], 1)
        /\ TheCall.word \in DOMAIN feats.initial =>
              Counts(TheCall.ans, feats.initial[TheCall.word], 1)
        /\ TheCall.word \in DOMAIN feats.final =>
              Counts(TheCall.ans, feats.final[TheCall.word], 1)

(* the whole word is registered as an initial n-gram and the span padded on  *)
(* both sides, of order len(word) + 2, is within the order range             *)
C6_Witness ==
    /\ OrdinaryCall
    /\ PairwiseDistinctIds(feats)
    /\ TheCall.word \in DOMAIN feats.word
    /\ TheCall.word \in DOMAIN feats.initial
    /\ feats.min_ngram_order <= Len(TheCall.word) + 2
    /\ feats.max_ngram_order >= Len(TheCall.word) + 2

(* C7, as stated: a match n-gram that occurs at two positions of a word has  *)
(* the value 2 in the vector returned for that word.                         *)
C7_TwoPositionsGiveTwo ==
    call # <<>> =>
        \A g \in DOMAIN feats.match :
            Cardinality(Positions(g, TheCall.word)) = 2 =>
                /\ TheCall.raised = NoErr
                /\ Counts(TheCall.ans, feats.match[g], 2)

(* C7, amended: for a word with id # 0 that is not special, a match n-gram   *)
(* whose feature id no other feature of the dictionary uses and that occurs  *)
(* at exactly two positions of the word has the value 2 in the vector.       *)
C7_TwoPositionsGiveTwoOrdinary ==
    OrdinaryCall =>
        \A g \in DOMAIN feats.match :
            (Cardinality(Positions(g, TheCall.word)) = 2
                /\ UsedOnce(feats, feats.match[g])) =>
                Counts(TheCall.ans, feats.match[g], 2)

(* the two positions overlap: aa in aaa *)
C7_Witness ==
    /\ OrdinaryCall
    /\ \E g \in DOMAIN feats.match :
          /\ Len(g) = 2
          /\ Positions(g, TheCall.word) = {1, 2}
          /\ UsedOnce(feats, feats.match[g])
          /\ Counts(TheCall.ans, feats.match[g], 2)

(* C8: the word with id 0 gets the empty vector, whatever the dictionary     *)
(* holds, and its output line has no feature.                                *)
C8_PadWordIsEmpty ==
    /\ (call # <<>> /\ TheCall.idx = 0) =>
          (TheCall.raised = NoErr /\ DOMAIN TheCall.ans = {})
    /\ Len(out) >= 1 => out[1] = <<0, <<>>>>

C8_Witness ==
    /\ call # <<>> /\ TheCall.idx = 0
    /\ feats.constant # None
    /\ TheCall.word \in DOMAIN feats.special
    /\ TheCall.word \in DOMAIN feats.match \cup DOMAIN feats.word
    /\ Len(out) = 1

C10_ScanAgreesWithReference ==
    (OrdinaryCall /\ PairwiseDistinctIds(feats)) =>
        /\ \A g \in DOMAIN feats.match :
              Counts(TheCall.ans, feats.match[g],
                     Cardinality(Positions(g, TheCall.word)))
        /\ \A g \in DOMAIN feats.initial :
              Counts(TheCall.ans, feats.initial[g],
                     IF StartsWith(TheCall.word, g) THEN 1 ELSE 0)
        /\ \A g \in DOMAIN feats.final :
              Counts(TheCall.ans, feats.final[g],
                     IF EndsWith(TheCall.word, g) THEN 1 ELSE 0)

(* a match at the end of the word, an initial and a final n-gram that are    *)
(* the whole word                                                            *)
C10_Witness ==
    /\ OrdinaryCall /\ PairwiseDistinctIds(feats)
    /\ \E g \in DOMAIN feats.match :
          Len(g) < Len(TheCall.word) /\ EndsWith(TheCall.word, g)
    /\ TheCall.word \in DOMAIN feats.initial
    /\ TheCall.word \in DOMAIN feats.final

====
